---- MODULE Spec2Model ----
(***************************************************************************)
(* A model of the fp_decorators library: the memoization cache of          *)
(* higher_order.py and the contract-verifying wrappers of immutable.py and *)
(* pure.py.                                                                *)
(***************************************************************************)
EXTENDS Integers, Sequences, FiniteSets, TLC

(***************************************************************************)
(* Python values.  A value is a pair <<type tag, payload>>, so that values *)
(* of different Python types are different and can be compared.            *)
(***************************************************************************)
PInt(n) == <<"int", n>>
PStr(s) == <<"str", s>>
PTuple(s) == <<"tuple", s>>
PList(s) == <<"list", s>>
PFrozen(S) == <<"frozenset", S>>
PSet(S) == <<"set", S>>
PDict(S) == <<"dict", S>>
PObj(kind, val) == <<"object", <<kind, val>>>>

Tag(v) == v[1]
Payload(v) == v[2]

\* hash(v): lists, dicts and sets are unhashable, a tuple is hashable when
\* every element is, a frozenset only ever holds hashable elements.
RECURSIVE Hashable(_)
Hashable(v) ==
    CASE Tag(v) \in {"list", "dict", "set"} -> FALSE
      [] Tag(v) = "tuple" -> \A j \in 1..Len(Payload(v)) : Hashable(Payload(v)[j])
      [] OTHER -> TRUE

\* list.remove(x): removes the first occurrence of x.
RECURSIVE RemoveFirst(_, _)
RemoveFirst(s, x) ==
    IF s = <<>> THEN <<>>
    ELSE IF Head(s) = x THEN Tail(s)
    ELSE <<Head(s)>> \o RemoveFirst(Tail(s), x)

InSeq(s, x) == \E j \in 1..Len(s) : s[j] = x

Elems(v) == {Payload(v)[j] : j \in 1..Len(Payload(v))}

(***************************************************************************)
(* Objects.  PObj(kind, val) is an instance whose attributes hold val:     *)
(*   "plain"  a class with no __eq__ and no __repr__ (identity equality,   *)
(*            the default repr shows the address);                         *)
(*   "quiet"  a class with a structural __eq__ and a __repr__ that does    *)
(*            not show its attributes;                                     *)
(*   "noeq"   a class whose comparison raises and whose repr shows its     *)
(*            attributes;                                                  *)
(*   "func"   a function or class object: copy.deepcopy returns it as is;  *)
(*   "handle" a lock or file: copy.deepcopy raises TypeError;              *)
(*   "logger" a logging.Logger: copy.deepcopy returns the registered one;  *)
(*   "module" a module such as random: copy.deepcopy raises TypeError.     *)
(***************************************************************************)
ObjectKinds == {"plain", "quiet", "noeq", "func", "handle"}
Kind(v) == Payload(v)[1]
Val(v) == Payload(v)[2]
IsObj(v, kinds) == Tag(v) = "object" /\ Kind(v) \in kinds

\* copy.deepcopy(v) raises
Uncopyable(v) == IsObj(v, {"handle", "module"})
\* copy.deepcopy(v) is v
DeepcopyReturnsSame(v) == Tag(v) \in {"int", "str"} \/ IsObj(v, {"func", "logger"})

\* A list, dict or set can be reached from v.
RECURSIVE HasMutableContainer(_)
HasMutableContainer(v) ==
    CASE Tag(v) \in {"list", "dict", "set"} -> TRUE
      [] Tag(v) = "tuple" -> \E e \in Elems(v) : HasMutableContainer(e)
      [] Tag(v) = "frozenset" -> \E e \in Payload(v) : HasMutableContainer(e)
      [] OTHER -> FALSE

\* Something a callable can change in place can be reached from v.
RECURSIVE HasMutable(_)
HasMutable(v) ==
    CASE Tag(v) \in {"list", "dict", "set", "object"} -> TRUE
      [] Tag(v) = "tuple" -> \E e \in Elems(v) : HasMutable(e)
      [] Tag(v) = "frozenset" -> \E e \in Payload(v) : HasMutable(e)
      [] OTHER -> FALSE

Toggle(S, e) == IF e \in S THEN S \ {e} ELSE S \cup {e}
FirstMutable(p) ==
    CHOOSE j \in 1..Len(p) : HasMutable(p[j]) /\ \A j2 \in 1..(j - 1) : ~HasMutable(p[j2])

\* What the callable does to an argument it changes: lst.append(4) (or
\* lst.pop() when that was done before), d['new'] = 4, s.add(4),
\* obj.attr = other value; inside a tuple, the first item that can change.
RECURSIVE Mutate(_)
Mutate(v) ==
    LET p == Payload(v) IN
    CASE Tag(v) = "list" ->
            IF p # <<>> /\ p[Len(p)] = PInt(4)
            THEN PList(SubSeq(p, 1, Len(p) - 1)) ELSE PList(Append(p, PInt(4)))
      [] Tag(v) = "dict" -> PDict(Toggle(p, <<PStr("new"), PInt(4)>>))
      [] Tag(v) = "set" -> PSet(Toggle(p, PInt(4)))
      [] Tag(v) = "object" -> PObj(Kind(v), 1 - Val(v))
      [] Tag(v) = "tuple" ->
            LET j == FirstMutable(p) IN PTuple([p EXCEPT ![j] = Mutate(p[j])])
      [] OTHER -> v

TypeError == <<"error", "TypeError">>

\* to_immutable(obj)
RECURSIVE to_immutable(_)
to_immutable(v) ==
    LET p == Payload(v) IN
    CASE Tag(v) = "list" ->
            LET items == [j \in 1..Len(p) |-> to_immutable(p[j])] IN
            IF \E j \in 1..Len(p) : items[j] = TypeError THEN TypeError
            ELSE PTuple(items)
      [] Tag(v) = "dict" ->
            LET pairs == {<<kv[1], to_immutable(kv[2])>> : kv \in p} IN
            IF \E kv \in pairs : kv[2] = TypeError \/ ~Hashable(kv[2]) THEN TypeError
            ELSE PFrozen({PTuple(kv) : kv \in pairs})
      [] Tag(v) = "set" ->
            LET items == {to_immutable(e) : e \in p} IN
            IF \E e \in items : e = TypeError \/ ~Hashable(e) THEN TypeError
            ELSE PFrozen(items)
      [] OTHER -> v

\* The parts of v that to_immutable hands on as they are and that can change.
Survives(v) == to_immutable(v) # TypeError /\ HasMutable(to_immutable(v))
FirstSurviving(p) ==
    CHOOSE j \in 1..Len(p) : Survives(p[j]) /\ \A j2 \in 1..(j - 1) : ~Survives(p[j2])

\* v after the callable changed, through to_immutable(v), the first part of
\* v that it can change.
RECURSIVE MutateThrough(_)
MutateThrough(v) ==
    LET p == Payload(v) IN
    CASE Tag(v) = "list" ->
            LET j == FirstSurviving(p) IN PList([p EXCEPT ![j] = MutateThrough(p[j])])
      [] Tag(v) = "dict" ->
            LET kv == CHOOSE x \in p : Survives(x[2]) IN
            PDict((p \ {kv}) \cup {<<kv[1], MutateThrough(kv[2])>>})
      [] OTHER -> Mutate(v)

(***************************************************************************)
(* memoize: the argument lists the wrapper is called with.  An argument    *)
(* list is the positional tuple and the keyword items.                     *)
(***************************************************************************)
Call0(args) == [args |-> args, kwargs |-> {}]
CallKw(args, kwargs) == [args |-> args, kwargs |-> kwargs]

ArgLists ==
    << Call0(<<PInt(1), PInt(2)>>),                          \* add(1, 2)
       Call0(<<PInt(3), PInt(4)>>),                          \* add(3, 4)
       Call0(<<PInt(5), PInt(6)>>),                          \* add(5, 6)
       Call0(<<PInt(7), PInt(8)>>),                          \* add(7, 8)
       CallKw(<<PInt(1)>>, {<<"b", PInt(2)>>}),              \* f(1, b=2)
       Call0(<<PTuple(<<PInt(1)>>),
               PFrozen({PTuple(<<PStr("b"), PInt(2)>>)})>>), \* f((1,), frozenset({("b", 2)}))
       Call0(<<PList(<<PInt(1)>>), PInt(2)>>),               \* f([1], 2)
       Call0(<<PInt(0), PInt(0)>>) >>                        \* f(0, 0): f raises

ArgIds == 1..Len(ArgLists)

\* The four calls of test_memoize, the ones the recorded trace follows.
PlainArgs == 1..4

\* The memoized function: f(*args, **kwargs) returns a value that tells the
\* argument lists apart (the index of the argument list stands for it), and
\* raises when its first argument is 0.
FRaises(i) == ArgLists[i].args[1] = PInt(0)
F(i) == i

\* max_size=None
NoMaxSize == -1
\* The largest max_size a wrapper is created with.
MaxSizeBound == 3
\* The longest call sequence that is recorded in trace.
MaxTrace == 6
\* fcount saturates here: "invoked more than once".
MaxCount == 2

KeyFuncs == {"none", "second"}

\* key_func = lambda *args, **kwargs: args[1]  (IndexError on a single argument)
KeyFuncRaises(kf, a) == kf = "second" /\ Len(a.args) < 2
KeyFuncValue(kf, a) == a.args[2]

\* key = (args, frozenset(kwargs.items())) if kwargs else args
DefaultKey(a) ==
    IF a.kwargs # {}
    THEN PTuple(<<PTuple(a.args),
                  PFrozen({PTuple(<<PStr(kv[1]), kv[2]>>) : kv \in a.kwargs})>>)
    ELSE PTuple(a.args)

MakeKey(kf, a) == IF kf # "none" THEN KeyFuncValue(kf, a) ELSE DefaultKey(a)

NoKey == <<"nokey", 0>>
Void == <<0>>

VARIABLES
    max_size,   \* memoize: the wrapper's max_size (NoMaxSize for None)
    key_func,   \* memoize: the wrapper's key_func
    cache,      \* memoize: cache, key -> result
    order,      \* memoize: the LRU order list (unused when max_size is None)
    fcount,     \* invocations of f per argument list by an unbounded wrapper
                \* since it was created or cleared (saturating at MaxCount)
    trace,      \* the calls made so far while all are in PlainArgs, else Void
    last        \* the last completed operation and how it ended

VARIABLES
    pc,         \* per thread: the statement of memoized it is about to run
    targ,       \* per thread: the argument list of its call
    tkey,       \* per thread: its local key
    told,       \* per thread: its local oldest_key
    tinv,       \* per thread: whether its call has invoked f
    tout,       \* per thread: how its last call ended
    race        \* the key both threads missed on before either stored it

VARIABLES
    ignore_params, \* pure: the wrapper's ignore_params
    allow_random,  \* pure: the wrapper's allow_random
    allow_logging, \* pure: the wrapper's allow_logging
    plast          \* the last call of the pure wrapper and how it ended

VARIABLES
    deep_copy,     \* immutable: the wrapper's deep_copy
    freeze_input,  \* immutable: the wrapper's freeze_input
    objs,          \* the caller's objects, the ones it passes as arguments
    ilast          \* the last call of the wrapper and how it ended

memoVars == <<max_size, key_func, cache, order, fcount, trace, last>>
concVars == <<pc, targ, tkey, told, tinv, tout, race>>
immVars == <<deep_copy, freeze_input, objs, ilast>>
pureVars == <<ignore_params, allow_random, allow_logging, plast>>

VARIABLES
    funcs,         \* compose / pipe: the callables fs, by name
    xin,           \* compose / pipe: the value x
    cout           \* the results of compose(*fs)(x), pipe(*fs)(x), pipe(*reversed(fs))(x)

VARIABLES
    csig,          \* curry: the signature of the underlying callable fn
    carity,        \* curry: the arity= it was given, or NoArity
    cargs,         \* curry: the positional arguments the newest closure holds
    ckw,           \* curry: the keyword arguments the newest closure holds
    cphase,        \* curry: "open" until fn has been invoked
    ccalls,        \* curry: how often fn was invoked
    chist,         \* curry: the argument groups supplied so far, in order
    clast          \* curry: the last invocation and what it returned

VARIABLES
    ptlast,        \* partial: the last call of a partially applied callable
    mrlast         \* map_reduce: the last call of a map-reduce callable

composeVars == <<funcs, xin, cout>>
curryVars == <<csig, carity, cargs, ckw, cphase, ccalls, chist, clast>>
VARIABLES
    tform,         \* trampoline: what the thunks call, the plain function or the trampolined name
    tn,            \* trampoline: the argument n of the call
    tbase,         \* trampoline: what the base case returns, the accumulator or a type
    stack,         \* trampoline: the activations of trampolined and of thunks, outermost first
    tresult        \* trampoline: how the outermost call ended

VARIABLES
    hfn,           \* higher_order: the wrapped callable
    hattrs,        \* higher_order: the attributes set on the wrapper
    hout           \* higher_order: what each use of the wrapper gave for xin

VARIABLES
    rarg,          \* run: the argument of the current run as the caller passed it
    rplan,         \* run: what the wrapped callable does in the current run
    rwork,         \* run: the object the callable is handed
    rsnap,         \* run: the snapshot compared with it afterwards
    rsteps,        \* run: the steps the current run has taken
    rinvoked,      \* run: how often the current run invoked the callable
    rmismatch,     \* run: what the verification of the current run found
    rhist          \* run: the finished runs

VARIABLES
    closures,      \* closures: what each callable the caller holds has accumulated
    kborn,         \* closures: what each of them had accumulated when it was returned
    klast,         \* closures: the latest invocation of one of them
    kprev          \* closures: the invocation before it

applyVars == <<ptlast, mrlast>>
closureVars == <<closures, kborn, klast, kprev>>
runVars == <<rarg, rplan, rwork, rsnap, rsteps, rinvoked, rmismatch, rhist>>
trampVars == <<tform, tn, tbase, stack, tresult>>
enhVars == <<hfn, hattrs, hout>>
hoVars == <<composeVars, curryVars, applyVars, trampVars, enhVars, runVars, closureVars>>

vars == <<memoVars, concVars, immVars, pureVars, hoVars>>

Threads == {1, 2}
Other(t) == CHOOSE u \in Threads : u # t

Outcome(op, i, outcome, value, invoked, evicted) ==
    [op |-> op, arg |-> i, outcome |-> outcome, value |-> value,
     invoked |-> invoked, evicted |-> evicted]

\* A freshly created wrapper: cache = {} and order = [].
Fresh ==
    /\ cache = <<>>
    /\ order = <<>>
    /\ fcount = [i \in ArgIds |-> 0]
    /\ last = Outcome("init", 0, "none", 0, FALSE, NoKey)

MemoInit ==
    /\ max_size \in {NoMaxSize} \cup (0..MaxSizeBound)
    /\ key_func \in KeyFuncs
    /\ Fresh
    /\ trace = <<>>

\* order.remove(key); order.append(key)
TouchStale(ord, key) == ord
Touch(ord, key) == Append(RemoveFirst(ord, key), key)

\* order.append(key)
AppendKeyOnce(ord, key) == IF InSeq(ord, key) THEN ord ELSE Append(ord, key)
AppendKey(ord, key) == Append(ord, key)

\* oldest_key = order.pop(0): the key popped and the list that is left.
PopNewest(ord) == [key |-> ord[Len(ord)], rest |-> SubSeq(ord, 1, Len(ord) - 1)]
PopOldest(ord) == [key |-> Head(ord), rest |-> Tail(ord)]

\* cache[key] = result
Store(c, key, result) == (key :> result) @@ c
\* del cache[key]
DeleteNothing(c, key) == c
Delete(c, key) == [k \in DOMAIN c \ {key} |-> c[k]]

Count(c, i, invoked) ==
    IF invoked /\ max_size = NoMaxSize /\ c[i] < MaxCount
    THEN [c EXCEPT ![i] = c[i] + 1] ELSE c

Record(t, i) ==
    IF t = Void \/ i \notin PlainArgs \/ Len(t) >= MaxTrace THEN Void
    ELSE Append(t, i)

\* The call raised before anything was stored.
RaisedStoring(i, outcome, invoked) ==
    /\ last' = Outcome("call", i, outcome, 0, invoked, NoKey)
    /\ cache' = Store(cache, MakeKey("none", ArgLists[i]), 0)
    /\ UNCHANGED order
Raised(i, outcome, invoked) ==
    /\ last' = Outcome("call", i, outcome, 0, invoked, NoKey)
    /\ UNCHANGED <<cache, order>>

\* memoized(*args, **kwargs), one whole call.
memoized(i) ==
    LET a == ArgLists[i] IN
    /\ UNCHANGED <<max_size, key_func>>
    /\ trace' = Record(trace, i)
    /\ IF KeyFuncRaises(key_func, a)
       THEN /\ Raised(i, "KeyFuncError", FALSE)
            /\ UNCHANGED fcount
       ELSE LET key == MakeKey(key_func, a) IN
            IF ~Hashable(key)
            THEN \* key in cache: TypeError, unhashable type
                 /\ Raised(i, "TypeError", FALSE)
                 /\ UNCHANGED fcount
            ELSE IF key \in DOMAIN cache
            THEN /\ UNCHANGED <<cache, fcount>>
                 /\ IF max_size # NoMaxSize
                    THEN IF InSeq(order, key)
                         THEN /\ order' = Touch(order, key)
                              /\ last' = Outcome("call", i, "return", cache[key], FALSE, NoKey)
                         ELSE \* order.remove(key): ValueError
                              /\ UNCHANGED order
                              /\ last' = Outcome("call", i, "ValueError", 0, FALSE, NoKey)
                    ELSE /\ UNCHANGED order
                         /\ last' = Outcome("call", i, "return", cache[key], FALSE, NoKey)
            ELSE /\ fcount' = Count(fcount, i, TRUE)
                 /\ IF FRaises(i)
                    THEN Raised(i, "FnError", TRUE)
                    ELSE LET result == F(i)
                             cache1 == Store(cache, key, result)
                             order1 == AppendKey(order, key)
                         IN  IF max_size = NoMaxSize
                             THEN /\ cache' = cache1
                                  /\ UNCHANGED order
                                  /\ last' = Outcome("call", i, "return", result, TRUE, NoKey)
                             ELSE IF Len(order1) > max_size
                             THEN LET oldest_key == PopOldest(order1).key IN
                                  /\ order' = PopOldest(order1).rest
                                  /\ IF oldest_key \in DOMAIN cache1
                                     THEN /\ cache' = Delete(cache1, oldest_key)
                                          /\ last' = Outcome("call", i, "return", result, TRUE, oldest_key)
                                     ELSE \* del cache[oldest_key]: KeyError
                                          /\ cache' = cache1
                                          /\ last' = Outcome("call", i, "KeyError", 0, TRUE, NoKey)
                             ELSE /\ cache' = cache1
                                  /\ order' = order1
                                  /\ last' = Outcome("call", i, "return", result, TRUE, NoKey)

\* memoized.clear_cache = lambda: cache.clear()
clear_cache ==
    /\ cache' = <<>>
    /\ UNCHANGED <<max_size, key_func, order>>
    /\ fcount' = [i \in ArgIds |-> 0]
    /\ trace' = Void
    /\ last' = Outcome("clear", 0, "return", 0, FALSE, NoKey)

(***************************************************************************)
(* memoized, statement by statement, run by two threads on one wrapper.    *)
(* Each step is one access to the shared cache or order list.              *)
(***************************************************************************)
ConcIdle ==
    /\ pc = [t \in Threads |-> "idle"]
    /\ targ = [t \in Threads |-> 0]
    /\ tkey = [t \in Threads |-> NoKey]
    /\ told = [t \in Threads |-> NoKey]
    /\ tinv = [t \in Threads |-> FALSE]
    /\ tout = [t \in Threads |-> "none"]
    /\ race = NoKey

\* The argument lists the threads call the wrapper with.
RaceArgs == 1..3

Goto(t, label) == pc' = [pc EXCEPT ![t] = label]
Finish(t, outcome) ==
    /\ pc' = [pc EXCEPT ![t] = "idle"]
    /\ tout' = [tout EXCEPT ![t] = outcome]

\* Between its miss on the key and its cache[key] = result.
InMissWindow(u, key) == pc[u] \in {"call_fn", "store"} /\ tkey[u] = key

\* key = key_func(*args, **kwargs) or the default key
T_begin(t) ==
    /\ pc[t] = "idle"
    /\ tout[t] = "none"
    /\ \E i \in RaceArgs :
          /\ targ' = [targ EXCEPT ![t] = i]
          /\ tkey' = [tkey EXCEPT ![t] = MakeKey(key_func, ArgLists[i])]
    /\ tinv' = [tinv EXCEPT ![t] = FALSE]
    /\ tout' = [tout EXCEPT ![t] = "running"]
    /\ Goto(t, "check")
    /\ UNCHANGED <<cache, order, told, race>>

\* if key in cache:
T_check(t) ==
    /\ pc[t] = "check"
    /\ IF tkey[t] \in DOMAIN cache
       THEN /\ Goto(t, IF max_size # NoMaxSize THEN "hit_remove" ELSE "hit_return")
            /\ UNCHANGED race
       ELSE /\ Goto(t, "call_fn")
            /\ race' = IF InMissWindow(Other(t), tkey[t]) THEN tkey[t] ELSE race
    /\ UNCHANGED <<cache, order, targ, tkey, told, tinv, tout>>

\* order.remove(key)
T_hit_remove(t) ==
    /\ pc[t] = "hit_remove"
    /\ IF InSeq(order, tkey[t])
       THEN /\ order' = RemoveFirst(order, tkey[t])
            /\ Goto(t, "hit_append")
            /\ UNCHANGED tout
       ELSE /\ Finish(t, "ValueError")
            /\ UNCHANGED order
    /\ UNCHANGED <<cache, targ, tkey, told, tinv, race>>

\* order.append(key)
T_hit_append(t) ==
    /\ pc[t] = "hit_append"
    /\ order' = Append(order, tkey[t])
    /\ Goto(t, "hit_return")
    /\ UNCHANGED <<cache, targ, tkey, told, tinv, tout, race>>

\* return cache[key]
T_hit_return(t) ==
    /\ pc[t] = "hit_return"
    /\ Finish(t, IF tkey[t] \in DOMAIN cache THEN "return" ELSE "KeyError")
    /\ UNCHANGED <<cache, order, targ, tkey, told, tinv, race>>

\* result = fn(*args, **kwargs)
T_call_fn(t) ==
    /\ pc[t] = "call_fn"
    /\ tinv' = [tinv EXCEPT ![t] = TRUE]
    /\ Goto(t, "store")
    /\ UNCHANGED <<cache, order, targ, tkey, told, tout, race>>

\* cache[key] = result
T_store(t) ==
    /\ pc[t] = "store"
    /\ cache' = Store(cache, tkey[t], F(targ[t]))
    /\ Goto(t, IF max_size # NoMaxSize THEN "append" ELSE "return")
    /\ UNCHANGED <<order, targ, tkey, told, tinv, tout, race>>

\* order.append(key)
T_append(t) ==
    /\ pc[t] = "append"
    /\ order' = AppendKey(order, tkey[t])
    /\ Goto(t, "lencheck")
    /\ UNCHANGED <<cache, targ, tkey, told, tinv, tout, race>>

\* if len(order) > max_size:
T_lencheck(t) ==
    /\ pc[t] = "lencheck"
    /\ Goto(t, IF Len(order) > max_size THEN "pop" ELSE "return")
    /\ UNCHANGED <<cache, order, targ, tkey, told, tinv, tout, race>>

\* oldest_key = order.pop(0)
T_pop(t) ==
    /\ pc[t] = "pop"
    /\ IF order # <<>>
       THEN /\ told' = [told EXCEPT ![t] = PopOldest(order).key]
            /\ order' = PopOldest(order).rest
            /\ Goto(t, "del")
            /\ UNCHANGED tout
       ELSE /\ Finish(t, "IndexError")
            /\ UNCHANGED <<order, told>>
    /\ UNCHANGED <<cache, targ, tkey, tinv, race>>

\* del cache[oldest_key]
T_del(t) ==
    /\ pc[t] = "del"
    /\ IF told[t] \in DOMAIN cache
       THEN /\ cache' = Delete(cache, told[t])
            /\ Goto(t, "return")
            /\ UNCHANGED tout
       ELSE /\ Finish(t, "KeyError")
            /\ UNCHANGED cache
    /\ UNCHANGED <<order, targ, tkey, told, tinv, race>>

\* return result
T_return(t) ==
    /\ pc[t] = "return"
    /\ Finish(t, "return")
    /\ UNCHANGED <<cache, order, targ, tkey, told, tinv, race>>

(***************************************************************************)
(* immutable: the caller holds two objects and passes them to the wrapped  *)
(* callable in one of the call shapes below.                               *)
(***************************************************************************)
Slots == {1, 2}

ArgValues ==
    { PInt(1),
      PList(<<PInt(1), PInt(2), PInt(3)>>),                          \* [1, 2, 3]
      PDict({<<PStr("list"), PList(<<PInt(1)>>)>>,
             <<PStr("dict"), PDict({<<PStr("a"), PInt(1)>>})>>}),    \* {'list': [1], 'dict': {'a': 1}}
      PSet({PInt(1)}),                                               \* {1}
      PTuple(<<PList(<<PInt(1)>>)>>),                                \* ([1],)
      PList(<<PTuple(<<PList(<<PInt(1)>>)>>)>>),                     \* [([1],)]
      PDict({<<PStr("a"), PTuple(<<PList(<<PInt(1)>>)>>)>>}),        \* {'a': ([1],)}
      PList(<<PDict({<<PStr("a"),
                       PList(<<PInt(1), PSet({PInt(2)})>>)>>})>>) }  \* [{'a': [1, {2}]}]
    \cup {PObj(k, 0) : k \in ObjectKinds}

\* The wrapped callable (its name and inspect.signature parameters) and how
\* the caller passes its two objects: positionally (pos) or by keyword (kw).
Shapes ==
    << [fn |-> "f", params |-> <<"a", "b">>, pos |-> <<1, 2>>, kw |-> <<>>],      \* def f(a, b); f(x, y)
       [fn |-> "f", params |-> <<"a", "b">>, pos |-> <<1>>, kw |-> <<<<"b", 2>>>>], \* f(x, b=y)
       [fn |-> "va", params |-> <<"args">>, pos |-> <<1, 2>>, kw |-> <<>>],       \* def va(*args); va(x, y)
       [fn |-> "f", params |-> <<"a", "b">>, pos |-> <<>>,
        kw |-> <<<<"a", 1>>, <<"b", 2>>>>] >>                                     \* f(a=x, b=y)

\* What the callable does with each object it is handed.
Plans == [Slots -> {"keep", "mutate"}]

UsedSlots(sh) ==
    {sh.pos[j] : j \in 1..Len(sh.pos)} \cup {sh.kw[j][2] : j \in 1..Len(sh.kw)}

ArgsIndexName(i) == <<"args[0]", "args[1]", "args[2]">>[i + 1]
\* param_names[i] if i < len(param_names) else f"args[{i}]"
param_name(params, i) == IF i < Len(params) THEN params[i + 1] ELSE ArgsIndexName(i)

\* before != after: "eq", "ne", or "raise" when the comparison raises.
\* same: before and after are one object (deepcopy handed the object back).
Compare(b, a, same) ==
    CASE IsObj(b, {"plain", "func", "handle", "logger", "module"}) -> IF same THEN "eq" ELSE "ne"
      [] IsObj(b, {"noeq"}) -> "raise"
      [] OTHER -> IF b = a THEN "eq" ELSE "ne"

\* str(before) != str(after)
StrDiffers(b, a, same) ==
    CASE IsObj(b, {"plain", "func", "handle", "logger", "module"}) -> ~same
      [] IsObj(b, {"quiet"}) -> FALSE
      [] OTHER -> b # a

\* The except clause runs: the comparison raised, or it reported a
\* difference and the ValueError raised inside the try block was caught by
\* "except Exception".
EntersExcept(c) == c \in {"raise", "ne"}

\* The check of one argument ends in a ValueError that leaves the wrapper.
Detects(b, a, same) ==
    EntersExcept(Compare(b, a, same)) /\ StrDiffers(b, a, same)

NoValue == <<"none", 0>>

NoCall ==
    [op |-> "init", shape |-> 0, fn |-> "", outcome |-> "none", kind |-> "none",
     item |-> "", slot |-> 0, changed |-> {}, before |-> objs,
     received |-> [s \in Slots |-> NoValue]]

\* How a call ended; for a ValueError, the fn.__name__ and the item its
\* message names. changed: the objects fn changed; before: the caller's
\* objects when the call began; received: what fn was handed.
Verdict(k, outcome, kind, item, slot, changed, received) ==
    [op |-> "call", shape |-> k, fn |-> Shapes[k].fn,
     outcome |-> outcome, kind |-> kind, item |-> item,
     slot |-> slot, changed |-> changed, before |-> objs, received |-> received]

ImmInit ==
    /\ deep_copy \in BOOLEAN
    /\ freeze_input \in BOOLEAN
    /\ objs \in [Slots -> ArgValues]
    /\ ilast = NoCall

\* The object the callable works on is the caller's own.
HandsLive(v) == ~deep_copy \/ DeepcopyReturnsSame(v)

\* wrapper(*args, **kwargs) of immutable, one whole call.
immutable_wrapper(k, plan) ==
    LET sh == Shapes[k]
        used == UsedSlots(sh)
        none == [s \in Slots |-> NoValue]
    IN
    /\ UNCHANGED <<deep_copy, freeze_input>>
    /\ IF \E s \in used : Uncopyable(objs[s]) /\ (deep_copy \/ ~freeze_input)
       THEN \* copy.deepcopy raises before fn is called
            /\ ilast' = Verdict(k, "TypeError", "none", "", 0, {}, none)
            /\ UNCHANGED objs
       ELSE IF freeze_input
       THEN LET frozen == [s \in Slots |-> IF s \in used THEN to_immutable(objs[s]) ELSE NoValue]
            IN  IF \E s \in used : frozen[s] = TypeError
                THEN \* frozenset(...) of an unhashable item
                     /\ ilast' = Verdict(k, "TypeError", "none", "", 0, {}, none)
                     /\ UNCHANGED objs
                ELSE LET changed == {s \in used : plan[s] = "mutate" /\ HasMutable(frozen[s])}
                         after == [s \in Slots |->
                                     IF s \in changed THEN MutateThrough(objs[s]) ELSE objs[s]]
                     IN  /\ objs' = [s \in Slots |-> IF HandsLive(objs[s]) THEN after[s] ELSE objs[s]]
                         /\ ilast' = Verdict(k, "return", "none", "", 0, changed, frozen)
       ELSE LET changed == {s \in used : plan[s] = "mutate" /\ HasMutable(objs[s])}
                after == [s \in Slots |-> IF s \in changed THEN Mutate(objs[s]) ELSE objs[s]]
                same == [s \in Slots |-> DeepcopyReturnsSame(objs[s])]
                before == [s \in Slots |-> IF same[s] THEN after[s] ELSE objs[s]]
                bad(s) == Detects(before[s], after[s], same[s])
                badPos == {j \in 1..Len(sh.pos) : bad(sh.pos[j])}
                badKw == {j \in 1..Len(sh.kw) : bad(sh.kw[j][2])}
                received == [s \in Slots |-> IF s \in used THEN objs[s] ELSE NoValue]
            IN  /\ objs' = [s \in Slots |-> IF HandsLive(objs[s]) THEN after[s] ELSE objs[s]]
                /\ IF badPos # {}
                   THEN LET j == CHOOSE x \in badPos : \A y \in badPos : x <= y IN
                        ilast' = Verdict(k, "violation", "positional",
                                         param_name(sh.params, j - 1), sh.pos[j], changed, received)
                   ELSE IF badKw # {}
                   THEN LET j == CHOOSE x \in badKw : \A y \in badKw : x <= y IN
                        ilast' = Verdict(k, "violation", "keyword",
                                         sh.kw[j][1], sh.kw[j][2], changed, received)
                   ELSE ilast' = Verdict(k, "return", "none", "", 0, changed, received)

\* No wrapper of this kind is in use.
ImmIdle ==
    /\ deep_copy = TRUE
    /\ freeze_input = FALSE
    /\ objs = [s \in Slots |-> PInt(1)]
    /\ ilast = NoCall

(***************************************************************************)
(* pure: each call passes two fresh objects in one of the call shapes to a *)
(* callable that references the globals below.                             *)
(***************************************************************************)
Logger == PObj("logger", 0)
IsLogger(v) == IsObj(v, {"logger"})

PureArgValues ==
    {PInt(1), PList(<<PInt(1), PInt(2), PInt(3)>>)}
    \cup {PObj(k, 0) : k \in {"plain", "quiet", "noeq", "func", "logger", "handle"}}
PureArgs ==
    {o \in [Slots -> PureArgValues] : o[1] \in {PInt(1), PList(<<PInt(1), PInt(2), PInt(3)>>)}}

\* inspect.getclosurevars(fn).globals: the globals the callable references,
\* in the order the check visits them.
GlobalNames == <<"state", "glog", "random">>
GlobalNameSet == {GlobalNames[j] : j \in 1..Len(GlobalNames)}
StateValues ==
    {PInt(0), PList(<<PInt(1)>>)} \cup {PObj(k, 0) : k \in {"plain", "quiet", "func", "handle"}}
PureGlobals ==
    {g \in [GlobalNameSet -> StateValues \cup {Logger, PObj("module", 0)}] :
        /\ g["state"] \in StateValues
        /\ g["glog"] = Logger
        /\ g["random"] = PObj("module", 0)}

\* The global the callable changes, if any: state += 1 or state.append(..),
\* glog.setLevel(..), random.random().
Effects == GlobalNameSet \cup {"none"}
GlobalChange(v) == IF Tag(v) = "int" THEN PInt(1 - Payload(v)) ELSE Mutate(v)

IgnoreChoices == {{}, {"b"}, {"args"}}

\* func_globals: the names whose value is recorded before the call.
Snapshotted(g) ==
    {n \in GlobalNameSet : n # "random" /\ ~(allow_logging /\ IsLogger(g[n]))}

\* The check of one recorded global ends in a ValueError.  A value that
\* cannot be copied was recorded as str(value).
\* An int global is rebound by the callable, so its recorded value is the old
\* one; an object that deepcopy hands back is recorded as itself.
GlobalDetects(b, a) ==
    LET alias == Tag(b) = "object" /\ DeepcopyReturnsSame(b) IN
    IF Uncopyable(b)
    THEN FALSE
    ELSE Detects(IF alias THEN a ELSE b, a, alias)

NoPureCall ==
    [op |-> "init", shape |-> 0, fn |-> "", outcome |-> "none", kind |-> "none",
     item |-> "", slot |-> 0, changed |-> {}, gchanged |-> {},
     before |-> [s \in Slots |-> NoValue], after |-> [s \in Slots |-> NoValue],
     gbefore |-> [n \in GlobalNameSet |-> NoValue],
     gafter |-> [n \in GlobalNameSet |-> NoValue]]

PureVerdict(k, outcome, kind, item, slot, changed, gchanged, o, o2, g, g2) ==
    [op |-> "call", shape |-> k, fn |-> Shapes[k].fn,
     outcome |-> outcome, kind |-> kind, item |-> item, slot |-> slot,
     changed |-> changed, gchanged |-> gchanged,
     before |-> o, after |-> o2, gbefore |-> g, gafter |-> g2]

PureInit ==
    /\ ignore_params \in IgnoreChoices
    /\ allow_random \in BOOLEAN
    /\ allow_logging \in BOOLEAN
    /\ plast = NoPureCall

\* No wrapper of this kind is in use.
PureIdle ==
    /\ ignore_params = {}
    /\ allow_random = FALSE
    /\ allow_logging = TRUE
    /\ plast = NoPureCall

\* The check skips the argument at position j (counted from 1).
SkipsPositional(params, j, v) ==
    \/ (j - 1 < Len(params) /\ params[j] \in ignore_params)
    \/ (allow_logging /\ IsLogger(v))
SkipsKeyword(key, v) ==
    \/ key \in ignore_params
    \/ (allow_logging /\ IsLogger(v))

\* wrapper(*args, **kwargs) of pure, one whole call on objects o with the
\* module globals g.
pure_wrapper(k, plan, eff, o, g) ==
    LET sh == Shapes[k]
        used == UsedSlots(sh)
    IN
    /\ UNCHANGED <<ignore_params, allow_random, allow_logging>>
    /\ IF \E s \in used : Uncopyable(o[s])
       THEN \* copy.deepcopy(args) raises before fn is called
            plast' = PureVerdict(k, "TypeError", "none", "", 0, {}, {}, o, o, g, g)
       ELSE LET changed == {s \in used : plan[s] = "mutate" /\ HasMutable(o[s])}
                o2 == [s \in Slots |-> IF s \in changed THEN Mutate(o[s]) ELSE o[s]]
                gchanged == {n \in GlobalNameSet : n = eff}
                g2 == [n \in GlobalNameSet |-> IF n = eff THEN GlobalChange(g[n]) ELSE g[n]]
                same == [s \in Slots |-> DeepcopyReturnsSame(o[s])]
                copy == [s \in Slots |-> IF same[s] THEN o2[s] ELSE o[s]]
                bad(s) == Detects(copy[s], o2[s], same[s])
                badPos == {j \in 1..Len(sh.pos) :
                              /\ ~SkipsPositional(sh.params, j, o2[sh.pos[j]])
                              /\ bad(sh.pos[j])}
                badKw == {j \in 1..Len(sh.kw) :
                              /\ ~SkipsKeyword(sh.kw[j][1], o2[sh.kw[j][2]])
                              /\ bad(sh.kw[j][2])}
                badGl == {j \in 1..Len(GlobalNames) :
                              /\ GlobalNames[j] \in Snapshotted(g)
                              /\ ~(GlobalNames[j] = "random" /\ allow_random)
                              /\ GlobalDetects(g[GlobalNames[j]], g2[GlobalNames[j]])}
            IN  IF badPos # {}
                THEN LET j == CHOOSE x \in badPos : \A y \in badPos : x <= y IN
                     plast' = PureVerdict(k, "violation", "positional",
                                          param_name(sh.params, j - 1), sh.pos[j],
                                          changed, gchanged, o, o2, g, g2)
                ELSE IF badKw # {}
                THEN LET j == CHOOSE x \in badKw : \A y \in badKw : x <= y IN
                     plast' = PureVerdict(k, "violation", "keyword",
                                          sh.kw[j][1], sh.kw[j][2],
                                          changed, gchanged, o, o2, g, g2)
                ELSE IF badGl # {}
                THEN LET j == CHOOSE x \in badGl : \A y \in badGl : x <= y IN
                     plast' = PureVerdict(k, "violation", "global",
                                          GlobalNames[j], 0,
                                          changed, gchanged, o, o2, g, g2)
                ELSE plast' = PureVerdict(k, "return", "none", "", 0,
                                          changed, gchanged, o, o2, g, g2)

(***************************************************************************)
(* compose and pipe over unary callables on integers.                      *)
(***************************************************************************)
Funcs == {"inc", "dbl", "sq"}
ApplyFn(f, v) ==
    CASE f = "inc" -> v + 1
      [] f = "dbl" -> v * 2
      [] f = "sq" -> v * v

MaxFuncs == 3
MaxX == 2
FnLists == UNION {[1..n -> Funcs] : n \in 0..MaxFuncs}

\* The function objects passed as *funcs: the j-th callable of the list.
FnObjs(fl) == [j \in 1..Len(fl) |-> <<j, fl[j]>>]
reversed(sq) == [j \in 1..Len(sq) |-> sq[Len(sq) + 1 - j]]

\* result = x; for f in fns: result = f(result), from the j-th callable on;
\* log lists the callables invoked, in order.
RECURSIVE RunLoop(_, _, _, _)
RunLoop(fns, j, result, log) ==
    IF j > Len(fns)
    THEN [value |-> result, log |-> log, done |-> TRUE]
    ELSE RunLoop(fns, j + 1, ApplyFn(fns[j][2], result), Append(log, fns[j]))

Identity(xx) == [value |-> xx, log |-> <<>>, done |-> TRUE]

composed_forward(fns, xx) == RunLoop(fns, 1, xx, <<>>)
composed_function(fns, xx) == RunLoop(reversed(fns), 1, xx, <<>>)
piped_backward(fns, xx) == RunLoop(reversed(fns), 1, xx, <<>>)
piped_function(fns, xx) == RunLoop(fns, 1, xx, <<>>)

\* compose(*fns)(xx) and pipe(*fns)(xx)
compose(fns, xx) == IF fns = <<>> THEN Identity(xx) ELSE composed_function(fns, xx)
pipe(fns, xx) == IF fns = <<>> THEN Identity(xx) ELSE piped_function(fns, xx)

NoResult == [value |-> 0, log |-> <<>>, done |-> FALSE]
NotComposed == [compose |-> NoResult, pipe |-> NoResult, piperev |-> NoResult]

ComposeInit ==
    /\ funcs \in FnLists
    /\ xin \in 0..MaxX
    /\ cout = NotComposed

ComposeIdle ==
    /\ funcs = <<>>
    /\ xin = 0
    /\ cout = NotComposed

ComposeCall ==
    /\ cout' = [cout EXCEPT !.compose = compose(FnObjs(funcs), xin)]
    /\ UNCHANGED <<funcs, xin>>

PipeCall ==
    /\ cout' = [cout EXCEPT !.pipe = pipe(FnObjs(funcs), xin)]
    /\ UNCHANGED <<funcs, xin>>

PipeReversedCall ==
    /\ cout' = [cout EXCEPT !.piperev = pipe(reversed(FnObjs(funcs)), xin)]
    /\ UNCHANGED <<funcs, xin>>

(***************************************************************************)
(* curry.  Keyword arguments are sets of <<key, value>> pairs, one per key. *)
(***************************************************************************)
Keys(kw) == {p[1] : p \in kw}
Lookup(kw, key) == (CHOOSE p \in kw : p[1] = key)[2]
\* {**d1, **d2}
MergeKeepFirst(d1, d2) == d1 \cup {p \in d2 : p[1] \notin Keys(d1)}
Merge(d1, d2) == {p \in d1 : p[1] \notin Keys(d2)} \cup d2

\* Signatures of the underlying callables: def add3(a, b, c),
\* def scale(a, b, opt=0), def one(a), def total(*args).
Sigs ==
    { [name |-> "add3", required |-> <<"a", "b", "c">>, optional |-> <<>>, variadic |-> FALSE],
      [name |-> "scale", required |-> <<"a", "b">>, optional |-> <<"opt">>, variadic |-> FALSE],
      [name |-> "one", required |-> <<"a">>, optional |-> <<>>, variadic |-> FALSE],
      [name |-> "total", required |-> <<>>, optional |-> <<>>, variadic |-> TRUE] }

NoArity == -1
GivenArity == 2
\* required_args, or the arity given
fn_arity(sig, arity) == IF arity = NoArity THEN Len(sig.required) ELSE arity

\* fn(*args, **kwargs): the parameters bound to the values passed, or
\* TypeError when the arguments do not fit the signature.
CallFn(sig, args, kw) ==
    LET params == sig.required \o sig.optional
        filled == {params[j] : j \in 1..(IF Len(args) < Len(params) THEN Len(args) ELSE Len(params))}
        names == {params[j] : j \in 1..Len(params)}
        req == {sig.required[j] : j \in 1..Len(sig.required)}
    IN  IF \/ (Len(args) > Len(params) /\ ~sig.variadic)
           \/ Keys(kw) \cap filled # {}
           \/ ~(Keys(kw) \subseteq names)
           \/ ~(req \subseteq (filled \cup Keys(kw)))
        THEN TypeError
        ELSE <<"value",
               {<<params[j], args[j]>> : j \in 1..Len(params) \cap 1..Len(args)} \cup kw,
               SubSeq(args, Len(params) + 1, Len(args))>>

Closure == <<"closure", 0>>

CurryArgs == {<<>>, <<1>>, <<2>>, <<3>>, <<1, 2>>, <<2, 3>>, <<3, 1>>}
CurryKwargs == {{}, {<<"b", 7>>}, {<<"b", 9>>}, {<<"c", 8>>}}
MaxChain == 3

\* curried(*args, **kwargs): fn is invoked, or a closure over args and
\* kwargs is returned.
curried_eager(args, kw) ==
    IF Len(args) + Cardinality(kw) >= fn_arity(csig, carity) - 1
    THEN [invoked |-> TRUE, result |-> CallFn(csig, args, kw), args |-> args, kw |-> kw]
    ELSE [invoked |-> FALSE, result |-> Closure, args |-> args, kw |-> kw]
curried(args, kw) ==
    IF Len(args) + Cardinality(kw) >= fn_arity(csig, carity)
    THEN [invoked |-> TRUE, result |-> CallFn(csig, args, kw), args |-> args, kw |-> kw]
    ELSE [invoked |-> FALSE, result |-> Closure, args |-> args, kw |-> kw]

\* inner(*more_args, **more_kwargs) of the closure over args and kw
inner_prepend(args, kw, more_args, more_kw) ==
    curried(more_args \o args, Merge(kw, more_kw))
inner(args, kw, more_args, more_kw) ==
    curried(args \o more_args, Merge(kw, more_kw))

NoCurryCall ==
    [op |-> "init", more_args |-> <<>>, more_kw |-> {}, invoked |-> FALSE,
     result |-> Closure]

CurryInit ==
    /\ csig \in Sigs
    /\ carity \in {NoArity, GivenArity}
    /\ cargs = <<>>
    /\ ckw = {}
    /\ cphase = "open"
    /\ ccalls = 0
    /\ chist = <<>>
    /\ clast = NoCurryCall

CurryIdle ==
    /\ csig = [name |-> "one", required |-> <<"a">>, optional |-> <<>>, variadic |-> FALSE]
    /\ carity = NoArity
    /\ cargs = <<>>
    /\ ckw = {}
    /\ cphase = "open"
    /\ ccalls = 0
    /\ chist = <<>>
    /\ clast = NoCurryCall

\* One invocation of the newest callable of the chain: curried itself at
\* first, then the closure the previous invocation returned.
CurryInvoke(ma, mk) ==
    LET r == IF chist = <<>> THEN curried(ma, mk) ELSE inner(cargs, ckw, ma, mk) IN
    /\ cphase = "open"
    /\ Len(chist) < MaxChain
    /\ cargs' = r.args
    /\ ckw' = r.kw
    /\ cphase' = IF r.invoked THEN "done" ELSE "open"
    /\ ccalls' = IF r.invoked THEN ccalls + 1 ELSE ccalls
    /\ chist' = Append(chist, [args |-> ma, kw |-> mk])
    /\ clast' = [op |-> "call", more_args |-> ma, more_kw |-> mk,
                 invoked |-> r.invoked, result |-> r.result]
    /\ UNCHANGED <<csig, carity>>

(***************************************************************************)
(* partial.                                                                *)
(***************************************************************************)
NoPartialCall ==
    [op |-> "init", sig |-> "", args |-> <<>>, kw |-> {}, more_args |-> <<>>,
     more_kw |-> {}, passed_args |-> <<>>, passed_kw |-> {}, calls |-> 0,
     result |-> Closure]

\* partially_applied(*more_args, **more_kwargs) of partial(func, *args, **kwargs)
partially_applied_after(sig, args, kw, more_args, more_kw) ==
    [op |-> "call", sig |-> sig.name, args |-> args, kw |-> kw,
     more_args |-> more_args, more_kw |-> more_kw,
     passed_args |-> more_args \o args, passed_kw |-> Merge(kw, more_kw), calls |-> 1,
     result |-> CallFn(sig, more_args \o args, Merge(kw, more_kw))]
partially_applied(sig, args, kw, more_args, more_kw) ==
    [op |-> "call", sig |-> sig.name, args |-> args, kw |-> kw,
     more_args |-> more_args, more_kw |-> more_kw,
     passed_args |-> args \o more_args, passed_kw |-> Merge(kw, more_kw), calls |-> 1,
     result |-> CallFn(sig, args \o more_args, Merge(kw, more_kw))]

PartialCall(sig, args, kw, more_args, more_kw) ==
    /\ ptlast.op = "init"
    /\ ptlast' = partially_applied(sig, args, kw, more_args, more_kw)
    /\ UNCHANGED mrlast

(***************************************************************************)
(* map_reduce.                                                             *)
(***************************************************************************)
PNone == <<"NoneType", 0>>
Mappers == {"inc", "sq"}
Reducers == {"add", "sub"}
Initials == {PNone, PInt(0), PInt(10)}
MaxItems == 3
Collections == UNION {[1..n -> 1..3] : n \in 0..MaxItems}

\* reducer(acc, v)
Reduce(r, acc, v) == IF r = "add" THEN acc + v ELSE acc - v

\* mapped = [mapper(item) for item in collection], with the calls made
RECURSIVE MapLoop(_, _, _, _, _)
MapLoop(mapper, coll, j, mapped, events) ==
    IF j > Len(coll)
    THEN [mapped |-> mapped, events |-> events]
    ELSE MapLoop(mapper, coll, j + 1, Append(mapped, ApplyFn(mapper, coll[j])),
                 Append(events, <<"map", coll[j], 0>>))

\* for i in range(start_idx, len(mapped)): result = reducer(result, mapped[i])
RECURSIVE FoldLoop(_, _, _, _, _)
FoldLoop(reducer, mapped, j, result, events) ==
    IF j > Len(mapped)
    THEN [value |-> PInt(result), events |-> events]
    ELSE FoldLoop(reducer, mapped, j + 1, Reduce(reducer, result, mapped[j]),
                  Append(events, <<"reduce", result, mapped[j]>>))

\* initial_value is not None
IsTruthy(v) == v # PNone /\ v # PInt(0)
IsNotNone(v) == v # PNone

\* map_reduce(mapper, reducer, initial)(coll)
map_reduce_fn(mapper, reducer, initial, coll) ==
    LET m == MapLoop(mapper, coll, 1, <<>>, <<>>) IN
    IF m.mapped = <<>>
    THEN [value |-> initial, events |-> m.events]
    ELSE IF IsNotNone(initial)
         THEN FoldLoop(reducer, m.mapped, 1, Payload(initial), m.events)
         ELSE FoldLoop(reducer, m.mapped, 2, m.mapped[1], m.events)

NoMapReduceCall ==
    [op |-> "init", mapper |-> "", reducer |-> "", initial |-> PNone, coll |-> <<>>,
     value |-> PNone, events |-> <<>>]

MapReduceCall(mapper, reducer, initial, coll) ==
    LET r == map_reduce_fn(mapper, reducer, initial, coll) IN
    /\ mrlast.op = "init"
    /\ mrlast' = [op |-> "call", mapper |-> mapper, reducer |-> reducer,
                  initial |-> initial, coll |-> coll, value |-> r.value,
                  events |-> r.events]
    /\ UNCHANGED ptlast

ApplyIdle ==
    /\ ptlast = NoPartialCall
    /\ mrlast = NoMapReduceCall

(***************************************************************************)
(* trampoline over the factorial accumulator of the test:                  *)
(*     def factorial(n, acc=1):                                            *)
(*         if n <= 1: return acc                                           *)
(*         return lambda: factorial(n-1, n*acc)                            *)
(* In the "decorated" form factorial is the trampolined name (@trampoline), *)
(* in the "plain" form the thunk calls the undecorated function.           *)
(* A value is <<tag, a, b>>: <<"thunk", n, acc>>, <<"value", v, 0>>,        *)
(* <<"type", 0, 0>> (a class), <<"unset", 0, 0>>.                           *)
(***************************************************************************)
MaxN == 5
\* sys.getrecursionlimit(), scaled down
RecursionLimit == 8
Unset == <<"unset", 0, 0>>
RecursionError == <<"error", 0, 0>>

\* func(n, acc)
func(n, acc, base) ==
    IF n <= 1
    THEN IF base = "acc" THEN <<"value", acc, 0>> ELSE <<"type", 0, 0>>
    ELSE <<"thunk", n - 1, n * acc>>

\* callable(result) and not isinstance(result, type)
IsThunk(r) == r[1] = "thunk"

Frame(kind, n, acc, rv) == [kind |-> kind, n |-> n, acc |-> acc, rv |-> rv]
Top == stack[Len(stack)]
\* Entering one more activation on top of d active ones overflows.
Overflows(d) == d + 1 > RecursionLimit

TrampInit ==
    /\ tform \in {"plain", "decorated"}
    /\ tn \in 0..MaxN
    /\ tbase \in {"acc", "type"}
    /\ stack = <<>>
    /\ tresult = Unset

TrampIdle ==
    /\ tform = "plain"
    /\ tn = 0
    /\ tbase = "acc"
    /\ stack = <<>>
    /\ tresult = Unset

Unwind ==
    /\ stack' = <<>>
    /\ tresult' = RecursionError

\* trampolined(n, acc) is entered and runs result = func(n, acc).
Enter(n, acc) ==
    IF Overflows(Len(stack) + 1)
    THEN Unwind
    ELSE /\ stack' = Append(stack, Frame("trampolined", n, acc, func(n, acc, tbase)))
         /\ UNCHANGED tresult

\* The caller's first call: factorial(n) or trampoline(fact)(n).
T_Call ==
    /\ stack = <<>> /\ tresult = Unset
    /\ Enter(tn, 1)
    /\ UNCHANGED <<tform, tn, tbase>>

\* while callable(result) ...: result = result() -- the thunk is entered.
T_Bounce ==
    /\ stack # <<>> /\ Top.kind = "trampolined" /\ IsThunk(Top.rv)
    /\ IF Overflows(Len(stack))
       THEN Unwind
       ELSE /\ stack' = Append(stack, Frame("thunk", Top.rv[2], Top.rv[3], Unset))
            /\ UNCHANGED tresult
    /\ UNCHANGED <<tform, tn, tbase>>

\* The body of the thunk: factorial(n-1, n*acc).  The plain function
\* returns at once; the trampolined name starts a trampoline of its own.
T_ThunkBody ==
    /\ stack # <<>> /\ Top.kind = "thunk" /\ Top.rv = Unset
    /\ IF tform = "plain"
       THEN IF Overflows(Len(stack))
            THEN Unwind
            ELSE /\ stack' = [stack EXCEPT ![Len(stack)].rv = func(Top.n, Top.acc, tbase)]
                 /\ UNCHANGED tresult
       ELSE Enter(Top.n, Top.acc)
    /\ UNCHANGED <<tform, tn, tbase>>

\* The thunk returns: the loop of the trampoline below stores its value.
T_ThunkReturn ==
    /\ stack # <<>> /\ Top.kind = "thunk" /\ Top.rv # Unset
    /\ stack' = [SubSeq(stack, 1, Len(stack) - 1) EXCEPT ![Len(stack) - 1].rv = Top.rv]
    /\ UNCHANGED <<tform, tn, tbase, tresult>>

\* return result: to the thunk that called the trampolined name, or to the
\* caller.
T_Return ==
    /\ stack # <<>> /\ Top.kind = "trampolined" /\ ~IsThunk(Top.rv)
    /\ IF Len(stack) = 1
       THEN /\ stack' = <<>>
            /\ tresult' = Top.rv
       ELSE /\ stack' = [SubSeq(stack, 1, Len(stack) - 1) EXCEPT ![Len(stack) - 1].rv = Top.rv]
            /\ UNCHANGED tresult
    /\ UNCHANGED <<tform, tn, tbase>>

(***************************************************************************)
(* higher_order(enhanced)(fn) and is_higher_order.  The wrapper is the      *)
(* callable <<0, fn>>; the callables passed to its compose and pipe are     *)
(* FnObjs(funcs).                                                           *)
(***************************************************************************)
Marker == "_is_higher_order"
Enhancements == {"compose", "pipe", "curry", "partial", "memoized"}

\* The attributes _higher_order sets on the wrapper.
_higher_order(enhanced) == IF enhanced THEN {Marker} \cup Enhancements ELSE {Marker}

\* hasattr(func, '_is_higher_order'); the wrappers here carry the names of
\* Funcs, which none of the later heuristics matches.
is_higher_order(attrs) == Marker \in attrs

wrapper == <<0, hfn>>
\* wrapper(x): return fn(x)
wrapper_call(xx) == [value |-> ApplyFn(hfn, xx), log |-> <<wrapper>>, done |-> TRUE]
\* wrapper.compose = lambda *funcs: compose(*(list(funcs) + [wrapper]))
wrapper_compose_first(fns, xx) == compose(<<wrapper>> \o fns, xx)
wrapper_compose(fns, xx) == compose(fns \o <<wrapper>>, xx)
\* wrapper.pipe = lambda *funcs: pipe(*([wrapper] + list(funcs)))
wrapper_pipe(fns, xx) == pipe(<<wrapper>> \o fns, xx)

NotUsed == [call |-> NoResult, compose |-> NoResult, pipe |-> NoResult, marked |-> "unasked"]

EnhInit ==
    /\ hfn \in Funcs
    /\ \E enhanced \in BOOLEAN : hattrs = _higher_order(enhanced)
    /\ hout = NotUsed

EnhIdle ==
    /\ hfn = "inc"
    /\ hattrs = {}
    /\ hout = NotUsed

HO_Call ==
    /\ hout' = [hout EXCEPT !.call = wrapper_call(xin)]
    /\ UNCHANGED <<hfn, hattrs>>

HO_Compose ==
    /\ "compose" \in hattrs
    /\ hout' = [hout EXCEPT !.compose = wrapper_compose(FnObjs(funcs), xin)]
    /\ UNCHANGED <<hfn, hattrs>>

HO_Pipe ==
    /\ "pipe" \in hattrs
    /\ hout' = [hout EXCEPT !.pipe = wrapper_pipe(FnObjs(funcs), xin)]
    /\ UNCHANGED <<hfn, hattrs>>

HO_IsHigherOrder ==
    /\ hout' = [hout EXCEPT !.marked = IF is_higher_order(hattrs) THEN "yes" ELSE "no"]
    /\ UNCHANGED <<hfn, hattrs>>

(***************************************************************************)
(* One wrapper of immutable or pure with default settings, called with one *)
(* argument, step by step: the copies and snapshots, the call of fn, the   *)
(* comparison, the return or the ValueError.  The two wrappers take the    *)
(* same steps.                                                             *)
(***************************************************************************)
MaxRuns == 2
RunArgs ==
    {PInt(1), PList(<<PInt(1), PInt(2), PInt(3)>>)}
    \cup {PObj(k, 0) : k \in {"plain", "quiet", "func", "handle"}}
RunPlans == {"keep", "mutate", "raise"}

RunRecord(arg, plan, outcome, steps, invoked, mismatch) ==
    [arg |-> arg, plan |-> plan, outcome |-> outcome, steps |-> steps,
     invoked |-> invoked, mismatch |-> mismatch]

Resting ==
    /\ rarg = NoValue
    /\ rplan = "keep"
    /\ rwork = NoValue
    /\ rsnap = NoValue
    /\ rsteps = <<>>
    /\ rinvoked = 0
    /\ rmismatch = FALSE

RunInit ==
    /\ Resting
    /\ rhist = <<>>

RunIdle == RunInit

\* The run is over: nothing of it is kept but what the caller saw.
EndRun(outcome, steps, invoked, mismatch) ==
    /\ rhist' = Append(rhist, RunRecord(rarg, rplan, outcome, steps, invoked, mismatch))
    /\ rarg' = NoValue /\ rplan' = "keep" /\ rwork' = NoValue /\ rsnap' = NoValue
    /\ rsteps' = <<>> /\ rinvoked' = 0 /\ rmismatch' = FALSE

\* The wrapper is called: copy.deepcopy of the argument, which raises
\* TypeError for an object that cannot be copied.
R_Capture ==
    /\ rsteps = <<>> /\ Len(rhist) < MaxRuns
    /\ \E arg \in RunArgs, plan \in RunPlans :
         IF Uncopyable(arg)
         THEN /\ rhist' = Append(rhist, RunRecord(arg, plan, "TypeError", <<"capture">>, 0, FALSE))
              /\ UNCHANGED <<rarg, rplan, rwork, rsnap, rsteps, rinvoked, rmismatch>>
         ELSE /\ rarg' = arg
              /\ rplan' = plan
              /\ rwork' = arg
              /\ rsnap' = arg
              /\ rsteps' = <<"capture">>
              /\ UNCHANGED <<rinvoked, rmismatch, rhist>>

\* result = fn(...): fn changes what it was handed, or raises.  A snapshot
\* that deepcopy handed back as the same object changes with it.
R_Invoke ==
    /\ rsteps = <<"capture">>
    /\ IF rplan = "raise"
       THEN EndRun("raised", Append(rsteps, "invoke"), rinvoked + 1, FALSE)
       ELSE LET after == IF rplan = "mutate" /\ HasMutable(rwork) THEN Mutate(rwork) ELSE rwork
            IN  /\ rwork' = after
                /\ rsnap' = IF DeepcopyReturnsSame(rwork) THEN after ELSE rsnap
                /\ rsteps' = Append(rsteps, "invoke")
                /\ rinvoked' = rinvoked + 1
                /\ UNCHANGED <<rarg, rplan, rmismatch, rhist>>

\* The comparison of the snapshot with the object after the call.
R_Verify ==
    /\ rsteps = <<"capture", "invoke">>
    /\ rmismatch' = Detects(rsnap, rwork, DeepcopyReturnsSame(rwork))
    /\ rsteps' = Append(rsteps, "verify")
    /\ UNCHANGED <<rarg, rplan, rwork, rsnap, rinvoked, rhist>>

\* raise ValueError(...) or return result
R_Finish ==
    /\ rsteps = <<"capture", "invoke", "verify">>
    /\ EndRun(IF rmismatch THEN "violation" ELSE "return",
              Append(rsteps, "finish"), rinvoked, rmismatch)

(***************************************************************************)
(* The callables a curried function gives out, kept and invoked again.     *)
(* closures[1] is curried itself (nothing accumulated), the others are the *)
(* inner closures returned so far, each over its args and kwargs.          *)
(***************************************************************************)
MaxClosures == 3
ClosureArgs == {<<>>, <<1>>, <<2, 3>>}
ClosureKwargs == {{}, {<<"b", 7>>}}

Cell(args, kw) == [args |-> args, kw |-> kw]
NoInvocation ==
    [op |-> "init", closure |-> 0, more_args |-> <<>>, more_kw |-> {},
     invoked |-> FALSE, result |-> Closure, cell |-> Cell(<<>>, {})]

ClosuresInit ==
    /\ closures = <<Cell(<<>>, {})>>
    /\ kborn = closures
    /\ klast = NoInvocation
    /\ kprev = NoInvocation

ClosuresIdle == ClosuresInit

\* What an invocation leaves in the cells of the closure it went through:
\* args and kwargs are only read (combined_args and combined_kwargs are
\* new objects).
OverwriteCell(c, i, r) == [c EXCEPT ![i] = Cell(r.args, r.kw)]
KeepCell(c, i, r) == c

\* closures[i](*ma, **mk)
ClosureInvoke(i, ma, mk) ==
    LET r == IF i = 1 THEN curried(ma, mk)
             ELSE inner(closures[i].args, closures[i].kw, ma, mk)
        kept == KeepCell(closures, i, r)
        keepsNew == ~r.invoked /\ Len(closures) < MaxClosures
    IN
    /\ closures' = IF keepsNew THEN Append(kept, Cell(r.args, r.kw)) ELSE kept
    /\ kborn' = IF keepsNew THEN Append(kborn, Cell(r.args, r.kw)) ELSE kborn
    /\ klast' = [op |-> "call", closure |-> i, more_args |-> ma, more_kw |-> mk,
                 invoked |-> r.invoked, result |-> r.result, cell |-> Cell(r.args, r.kw)]
    /\ kprev' = klast

HOIdle == ComposeIdle /\ CurryIdle /\ ApplyIdle /\ TrampIdle /\ EnhIdle /\ RunIdle /\ ClosuresIdle

(***************************************************************************)
(* Specifications.                                                         *)
(***************************************************************************)
Init == MemoInit /\ ConcIdle /\ ImmIdle /\ PureIdle /\ HOIdle

MemoCall == \E i \in ArgIds : memoized(i) /\ UNCHANGED <<concVars, immVars, pureVars, hoVars>>
MemoClear == clear_cache /\ UNCHANGED <<concVars, immVars, pureVars, hoVars>>

\* One wrapper used sequentially: calls and clear_cache.
Next ==
    \/ MemoCall
    \/ MemoClear

Spec == Init /\ [][Next]_vars

\* One wrapper used sequentially: calls only.
NextCalls == MemoCall

SpecCalls == Init /\ [][NextCalls]_vars

\* One bounded wrapper with the default key: after some calls made one
\* after the other, two threads call it once each at the same time.
InitConc ==
    /\ max_size \in 0..MaxSizeBound
    /\ key_func = "none"
    /\ Fresh
    /\ trace = Void
    /\ ConcIdle
    /\ ImmIdle
    /\ PureIdle
    /\ HOIdle

ConcWarmUp ==
    /\ \A t \in Threads : tout[t] = "none"
    /\ \E i \in RaceArgs : memoized(i)
    /\ UNCHANGED <<concVars, immVars, pureVars, hoVars>>

InThread(A) == A /\ UNCHANGED <<max_size, key_func, fcount, trace, last, immVars, pureVars, hoVars>>

NextConc ==
    \/ ConcWarmUp
    \/ \E t \in Threads : InThread(T_begin(t))
    \/ \E t \in Threads : InThread(T_check(t))
    \/ \E t \in Threads : InThread(T_hit_remove(t))
    \/ \E t \in Threads : InThread(T_hit_append(t))
    \/ \E t \in Threads : InThread(T_hit_return(t))
    \/ \E t \in Threads : InThread(T_call_fn(t))
    \/ \E t \in Threads : InThread(T_store(t))
    \/ \E t \in Threads : InThread(T_append(t))
    \/ \E t \in Threads : InThread(T_lencheck(t))
    \/ \E t \in Threads : InThread(T_pop(t))
    \/ \E t \in Threads : InThread(T_del(t))
    \/ \E t \in Threads : InThread(T_return(t))

SpecConc == InitConc /\ [][NextConc]_vars

\* One immutable wrapper, called again and again on the caller's objects.
MemoIdle ==
    /\ max_size = NoMaxSize
    /\ key_func = "none"
    /\ Fresh
    /\ trace = Void

InitImm == ImmInit /\ MemoIdle /\ ConcIdle /\ PureIdle /\ HOIdle

ImmCall ==
    /\ \E k \in 1..Len(Shapes), plan \in Plans : immutable_wrapper(k, plan)
    /\ UNCHANGED <<memoVars, concVars, pureVars, hoVars>>

NextImm == ImmCall

SpecImm == InitImm /\ [][NextImm]_vars

\* One pure wrapper and one call of it, on any arguments and globals.
InitPure == PureInit /\ MemoIdle /\ ConcIdle /\ ImmIdle /\ HOIdle

PureCall ==
    /\ plast.op = "init"
    /\ \E k \in 1..Len(Shapes), plan \in Plans, eff \in Effects,
          o \in PureArgs, g \in PureGlobals : pure_wrapper(k, plan, eff, o, g)
    /\ UNCHANGED <<memoVars, concVars, immVars, hoVars>>

NextPure == PureCall

SpecPure == InitPure /\ [][NextPure]_vars

\* compose and pipe built from one list of callables and applied to one x.
OthersIdle == MemoIdle /\ ConcIdle /\ ImmIdle /\ PureIdle
otherVars == <<memoVars, concVars, immVars, pureVars>>

InitCompose == ComposeInit /\ OthersIdle /\ CurryIdle /\ ApplyIdle /\ TrampIdle /\ EnhIdle /\ RunIdle /\ ClosuresIdle

NextCompose ==
    \/ ComposeCall /\ UNCHANGED <<otherVars, curryVars, applyVars, trampVars, enhVars, runVars, closureVars>>
    \/ PipeCall /\ UNCHANGED <<otherVars, curryVars, applyVars, trampVars, enhVars, runVars, closureVars>>
    \/ PipeReversedCall /\ UNCHANGED <<otherVars, curryVars, applyVars, trampVars, enhVars, runVars, closureVars>>

SpecCompose == InitCompose /\ [][NextCompose]_vars

\* One curried callable and one chain of invocations.
InitCurry == CurryInit /\ OthersIdle /\ ComposeIdle /\ ApplyIdle /\ TrampIdle /\ EnhIdle /\ RunIdle /\ ClosuresIdle

CurryStep ==
    /\ \E ma \in CurryArgs, mk \in CurryKwargs : CurryInvoke(ma, mk)
    /\ UNCHANGED <<otherVars, composeVars, applyVars, trampVars, enhVars, runVars, closureVars>>

NextCurry == CurryStep

SpecCurry == InitCurry /\ [][NextCurry]_vars

\* One call of a partially applied callable.
InitApply == ApplyIdle /\ OthersIdle /\ ComposeIdle /\ CurryIdle /\ TrampIdle /\ EnhIdle /\ RunIdle /\ ClosuresIdle

PartialStep ==
    /\ \E sig \in Sigs, args \in CurryArgs, kw \in CurryKwargs,
          more_args \in CurryArgs, more_kw \in CurryKwargs :
            PartialCall(sig, args, kw, more_args, more_kw)
    /\ UNCHANGED <<otherVars, composeVars, curryVars, trampVars, enhVars, runVars, closureVars>>

NextPartial == PartialStep

SpecPartial == InitApply /\ [][NextPartial]_vars

\* One call of a map-reduce callable.
MapReduceStep ==
    /\ \E mapper \in Mappers, reducer \in Reducers, initial \in Initials,
          coll \in Collections : MapReduceCall(mapper, reducer, initial, coll)
    /\ UNCHANGED <<otherVars, composeVars, curryVars, trampVars, enhVars, runVars, closureVars>>

NextMapReduce == MapReduceStep

SpecMapReduce == InitApply /\ [][NextMapReduce]_vars

\* One call of a trampolined factorial, activation by activation.
InitTramp == TrampInit /\ OthersIdle /\ ComposeIdle /\ CurryIdle /\ ApplyIdle /\ EnhIdle /\ RunIdle /\ ClosuresIdle
restOfTramp == <<otherVars, composeVars, curryVars, applyVars, enhVars, runVars, closureVars>>

NextTramp ==
    \/ T_Call /\ UNCHANGED restOfTramp
    \/ T_Bounce /\ UNCHANGED restOfTramp
    \/ T_ThunkBody /\ UNCHANGED restOfTramp
    \/ T_ThunkReturn /\ UNCHANGED restOfTramp
    \/ T_Return /\ UNCHANGED restOfTramp

SpecTramp == InitTramp /\ [][NextTramp]_vars

\* A wrapper made by higher_order, used on one list of callables and one x.
InitEnhanced ==
    /\ EnhInit
    /\ funcs \in FnLists /\ xin \in 0..MaxX /\ cout = NotComposed
    /\ OthersIdle /\ CurryIdle /\ ApplyIdle /\ TrampIdle /\ RunIdle /\ ClosuresIdle
restOfEnhanced == <<otherVars, composeVars, curryVars, applyVars, trampVars, runVars, closureVars>>

NextEnhanced ==
    \/ HO_Call /\ UNCHANGED restOfEnhanced
    \/ HO_Compose /\ UNCHANGED restOfEnhanced
    \/ HO_Pipe /\ UNCHANGED restOfEnhanced
    \/ HO_IsHigherOrder /\ UNCHANGED restOfEnhanced

SpecEnhanced == InitEnhanced /\ [][NextEnhanced]_vars

\* Calls of one immutable or pure wrapper, one step at a time.
InitRun == RunInit /\ OthersIdle /\ ComposeIdle /\ CurryIdle /\ ApplyIdle /\ TrampIdle /\ EnhIdle /\ ClosuresIdle
restOfRun == <<otherVars, composeVars, curryVars, applyVars, trampVars, enhVars, closureVars>>

NextRun ==
    \/ R_Capture /\ UNCHANGED restOfRun
    \/ R_Invoke /\ UNCHANGED restOfRun
    \/ R_Verify /\ UNCHANGED restOfRun
    \/ R_Finish /\ UNCHANGED restOfRun

SpecRun == InitRun /\ [][NextRun]_vars

\* The callables given out by one curried function, invoked in any order.
InitClosures ==
    /\ CurryInit /\ ClosuresInit
    /\ OthersIdle /\ ComposeIdle /\ ApplyIdle /\ TrampIdle /\ EnhIdle /\ RunIdle

ClosureStep ==
    /\ \E i \in 1..Len(closures), ma \in ClosureArgs, mk \in ClosureKwargs :
         ClosureInvoke(i, ma, mk)
    /\ UNCHANGED <<otherVars, composeVars, curryVars, applyVars, trampVars, enhVars, runVars>>

NextClosures == ClosureStep

SpecClosures == InitClosures /\ [][NextClosures]_vars

(***************************************************************************)
(* Claims about memoize.                                                   *)
(***************************************************************************)
KeyAt(t, j) == MakeKey(key_func, ArgLists[t[j]])
TraceKeys(t) == {KeyAt(t, j) : j \in 1..Len(t)}
\* The position in t of the most recent access to key k (0: never accessed).
LastAccess(t, k) ==
    LET at == {j \in 1..Len(t) : KeyAt(t, j) = k} IN
    IF at = {} THEN 0 ELSE CHOOSE j \in at : \A j2 \in at : j2 <= j
\* The keys of which fewer than n other keys were accessed more recently.
RecentKeys(t, n) ==
    {k \in TraceKeys(t) :
        Cardinality({KeyAt(t, j) : j \in (LastAccess(t, k) + 1)..Len(t)}) < n}

Tracked == trace # Void /\ max_size # NoMaxSize

\* C1: a bounded wrapper evicts by access order.  After any sequence of
\* calls the cached keys are the max_size most recently accessed ones, the
\* order list lists them from least to most recently accessed (so a hit has
\* moved its key to the most-recently-used end), and a key evicted by a miss
\* is one whose most recent access is older than that of every key that
\* stays.  With max_size=3, after (1,2),(3,4),(5,6),(7,8) the call (1,2)
\* invokes f again and a following (7,8) does not.
C1_LruByAccessOrder ==
    /\ Tracked =>
        /\ DOMAIN cache = RecentKeys(trace, max_size)
        /\ Len(order) = Cardinality(DOMAIN cache)
        /\ \A j \in 1..Len(order) : order[j] \in DOMAIN cache
        /\ \A j, j2 \in 1..Len(order) :
              j < j2 => LastAccess(trace, order[j]) < LastAccess(trace, order[j2])
        /\ last.evicted # NoKey =>
              /\ last.evicted \notin DOMAIN cache \/ max_size = 0
              /\ \A k \in DOMAIN cache :
                    LastAccess(trace, last.evicted) < LastAccess(trace, k)
    /\ (max_size = 3 /\ trace = <<1, 2, 3, 4, 1>>) =>
          (last.invoked /\ last.outcome = "return")
    /\ (max_size = 3 /\ trace = <<1, 2, 3, 4, 1, 4>>) =>
          (~last.invoked /\ last.outcome = "return" /\ last.value = F(4))

C1_Witness ==
    /\ max_size = 3 /\ key_func = "none"
    /\ trace = <<1, 2, 3, 4, 1, 4>>
    /\ ~last.invoked
    /\ MakeKey(key_func, ArgLists[2]) \notin DOMAIN cache

Distinct4(k1, k2, k3, k4) == Cardinality({k1, k2, k3, k4}) = 4

\* C2 as stated: with max_size=3, after misses on k1,k2,k3, a hit on k2 and
\* then a miss on k4 evict k3 and keep k1, so that a following call with k3
\* invokes f again.
C2_TouchEvictsK3 ==
    \A k1, k2, k3, k4 \in PlainArgs :
        (max_size = 3 /\ Distinct4(k1, k2, k3, k4)) =>
            /\ trace = <<k1, k2, k3, k2, k4>> =>
                  /\ last.evicted = MakeKey(key_func, ArgLists[k3])
                  /\ MakeKey(key_func, ArgLists[k1]) \in DOMAIN cache
            /\ trace = <<k1, k2, k3, k2, k4, k3>> => last.invoked

\* C2 amended: with max_size=3, after misses on k1,k2,k3, a hit on k2 and
\* then a miss on k4 evict k1 (the least recently used key) and keep k2 and
\* k3: a following call with k1 invokes f again, one with k3 does not.
C2_TouchEvictsK1 ==
    \A k1, k2, k3, k4 \in PlainArgs :
        (max_size = 3 /\ Distinct4(k1, k2, k3, k4)) =>
            /\ trace = <<k1, k2, k3>> => last.invoked
            /\ trace = <<k1, k2, k3, k2>> => ~last.invoked
            /\ trace = <<k1, k2, k3, k2, k4>> =>
                  /\ last.invoked
                  /\ last.evicted = MakeKey(key_func, ArgLists[k1])
                  /\ DOMAIN cache = {MakeKey(key_func, ArgLists[k]) : k \in {k2, k3, k4}}
            /\ trace = <<k1, k2, k3, k2, k4, k1>> => last.invoked
            /\ trace = <<k1, k2, k3, k2, k4, k3>> =>
                  (~last.invoked /\ last.value = F(k3))

C2_Witness ==
    /\ max_size = 3
    /\ trace = <<1, 2, 3, 2, 4, 1>>
    /\ last.invoked
    /\ last.evicted = MakeKey(key_func, ArgLists[3])

\* C3: after clear_cache the cache and the order list are both empty, as in
\* a freshly created wrapper.
C3_ClearEmptiesBoth ==
    last.op = "clear" => (cache = <<>> /\ order = <<>>)

DefaultSettings == max_size = NoMaxSize /\ key_func = "none"

\* C4: memoize(f) with default settings returns for every argument list what
\* f returns for it (and raises only when f raises), a hit does not invoke
\* f, and f is invoked at most once per argument list.
C4_Transparent ==
    DefaultSettings =>
        /\ last.op = "call" =>
              IF FRaises(last.arg)
              THEN last.outcome = "FnError"
              ELSE last.outcome = "return" /\ last.value = F(last.arg)
        /\ \A i \in ArgIds : fcount[i] <= 1

\* C5: when key_func raises, the call raises, f is not invoked and the
\* cache and the order list are as they were before the call.
C5_KeyFailureLeavesCache ==
    [][(last'.op = "call" /\ KeyFuncRaises(key_func, ArgLists[last'.arg])) =>
          /\ last'.outcome = "KeyFuncError"
          /\ ~last'.invoked
          /\ cache' = cache
          /\ order' = order
          /\ fcount' = fcount]_vars

C5_Witness ==
    /\ last.outcome = "KeyFuncError"
    /\ cache # <<>>
    /\ order # <<>>

NoDuplicates(s) == \A j, j2 \in 1..Len(s) : j # j2 => s[j] # s[j2]
\* The order list lists each cached key once and nothing else.
OrderAgrees == NoDuplicates(order) /\ {order[j] : j \in 1..Len(order)} = DOMAIN cache

BothReturned == \A t \in Threads : pc[t] = "idle" /\ tout[t] = "return"

\* C6: there is no synchronization.  When two calls of a bounded wrapper
\* both miss on one key before either stores it, f is invoked by both, and
\* once both have returned the order list and the cache disagree (the key is
\* listed twice, or listed and not cached) whenever max_size is at least 1.
C6_RaceDuplicatesAndCorrupts ==
    race # NoKey =>
        /\ \A t \in Threads : pc[t] \notin {"check", "call_fn"} => tinv[t]
        /\ (BothReturned /\ max_size >= 1) => ~OrderAgrees

C6_Witness ==
    /\ race # NoKey
    /\ BothReturned
    /\ \A t \in Threads : tinv[t]
    /\ Cardinality({j \in 1..Len(order) : order[j] = race}) = 2
    /\ race \in DOMAIN cache


(***************************************************************************)
(* immutable.                                                              *)
(***************************************************************************)
Called == ilast.op = "call"
PassedSlots == UsedSlots(Shapes[ilast.shape])

\* The name the message should carry for the flagged object: the declared
\* parameter at its position, args[i] past the declared ones, or its key.
ExpectedItem ==
    LET sh == Shapes[ilast.shape]
        posAt == {j \in 1..Len(sh.pos) : sh.pos[j] = ilast.slot}
        kwAt == {j \in 1..Len(sh.kw) : sh.kw[j][2] = ilast.slot}
    IN  IF ilast.kind = "positional"
        THEN {IF j <= Len(sh.params) THEN sh.params[j] ELSE ArgsIndexName(j - 1) : j \in posAt}
        ELSE {sh.kw[j][1] : j \in kwAt}

\* C7: in the default mode (freeze_input off) a call of immutable(f) raises
\* a contract violation if and only if f changed one of the arguments it
\* was passed, whatever the kind of the argument values.
C7_RaisesIffChanged ==
    (Called /\ ~freeze_input /\ ilast.outcome \in {"return", "violation"})
        => (ilast.outcome = "violation" <=> ilast.changed # {})

\* C8: with deep_copy on, after any call of immutable(f), returned or
\* raised, every object of the caller has the state it had before the call.
C8_CallerObjectsUntouched ==
    (Called /\ deep_copy) => objs = ilast.before

\* C9: in freeze_input mode no contract violation is raised, and no list,
\* dict or set can be reached from any argument handed to the callable.
C9_FrozenArgsUnreachable ==
    (Called /\ freeze_input) =>
        /\ ilast.outcome # "violation"
        /\ ilast.outcome = "return" =>
               \A s \in PassedSlots : ~HasMutableContainer(ilast.received[s])

\* C10: every contract violation names the wrapped callable and the item
\* at fault (parameter name, args[i], or keyword), and the item it names is
\* one whose state after the call differs from its state before.
C10_ViolationNamesChangedItem ==
    (Called /\ ilast.outcome = "violation") =>
        /\ ilast.fn = Shapes[ilast.shape].fn
        /\ ilast.item \in ExpectedItem
        /\ ilast.slot \in ilast.changed

(***************************************************************************)
(* pure.                                                                   *)
(***************************************************************************)
PureCalled == plast.op = "call" /\ plast.outcome \in {"return", "violation"}
PurePassed == UsedSlots(Shapes[plast.shape])

\* The external bindings that are exempt from the purity check: loggers
\* when allow_logging is on, the random source when allow_random is on.
ExcludedBindings ==
    {n \in GlobalNameSet : \/ (allow_logging /\ IsLogger(plast.gbefore[n]))
                           \/ (allow_random /\ n = "random")}
TrackedBindings == GlobalNameSet \ ExcludedBindings

\* The arguments that are exempt from the check: those whose name is in
\* ignore_params and, when allow_logging is on, loggers.
NameOfSlot(s) ==
    LET sh == Shapes[plast.shape] IN
    IF \E j \in 1..Len(sh.pos) : sh.pos[j] = s
    THEN LET j == CHOOSE x \in 1..Len(sh.pos) : sh.pos[x] = s IN
         IF j <= Len(sh.params) THEN sh.params[j] ELSE ArgsIndexName(j - 1)
    ELSE LET j == CHOOSE x \in 1..Len(sh.kw) : sh.kw[x][2] = s IN sh.kw[j][1]
ExemptSlots ==
    {s \in PurePassed : \/ NameOfSlot(s) \in ignore_params
                        \/ (allow_logging /\ IsLogger(plast.before[s]))}

\* C11: pure(f) raises a contract violation whenever f changed a tracked
\* global it references, and does not raise when the only change of the call
\* is to an excluded binding (a logger with allow_logging, the random source
\* with allow_random).
C11_TrackedGlobalsChecked ==
    PureCalled =>
        /\ (plast.gchanged \cap TrackedBindings # {}) => plast.outcome = "violation"
        /\ (plast.changed = {} /\ plast.gchanged \subseteq ExcludedBindings)
               => plast.outcome = "return"

\* C12: the random source is exempt exactly when allow_random is on: no
\* violation ever names it then, and with allow_random off a call whose only
\* effect is to change it raises a contract violation.
C12_RandomExemptIffAllowed ==
    PureCalled =>
        /\ allow_random => ~(plast.kind = "global" /\ plast.item = "random")
        /\ (~allow_random /\ plast.gchanged = {"random"} /\ plast.changed = {})
               => plast.outcome = "violation"

\* C13: a change to an argument named in ignore_params or to a logger
\* argument (allow_logging on) is never reported, a change to any other
\* positional or keyword argument raises a contract violation, and f works
\* on the caller's own objects, so the caller sees every change f made.
C13_ArgumentsChecked ==
    PureCalled =>
        /\ plast.kind \in {"positional", "keyword"} => plast.slot \notin ExemptSlots
        /\ (plast.changed \ ExemptSlots # {}) => plast.outcome = "violation"
        /\ \A s \in plast.changed : plast.after[s] = Mutate(plast.before[s])

(***************************************************************************)
(* compose and pipe.                                                       *)
(***************************************************************************)
Occurrences(log, e) == Cardinality({j \in 1..Len(log) : log[j] = e})
EachOnce(log) ==
    \A j \in 1..Len(funcs) : Occurrences(log, <<j, funcs[j]>>) = 1

\* f1(f2(...fn(x))) for fl = <<f1, ..., fn>>
RECURSIVE Nested(_, _)
Nested(fl, xx) == IF fl = <<>> THEN xx ELSE ApplyFn(Head(fl), Nested(Tail(fl), xx))
\* fn(...f2(f1(x)))
RECURSIVE Chained(_, _)
Chained(fl, xx) ==
    IF fl = <<>> THEN xx
    ELSE ApplyFn(fl[Len(fl)], Chained(SubSeq(fl, 1, Len(fl) - 1), xx))

\* C14: compose(*fs)(x) equals pipe(*reversed(fs))(x), and each of the two
\* calls invokes every function of fs exactly once.
C14_ComposeIsPipeReversed ==
    (cout.compose.done /\ cout.piperev.done) =>
        /\ cout.compose.value = cout.piperev.value
        /\ EachOnce(cout.compose.log)
        /\ EachOnce(cout.piperev.log)

\* Both calls were made on a list whose order matters.
C14_Witness ==
    /\ cout.compose.done /\ cout.piperev.done /\ cout.pipe.done
    /\ Len(funcs) = MaxFuncs
    /\ cout.compose.value # cout.pipe.value

\* C15: compose applies fn first and f1 last and returns f1(f2(...fn(x))),
\* pipe applies f1 first and fn last; with no functions both return x.
C15_ApplicationOrder ==
    /\ cout.compose.done =>
           /\ cout.compose.value = Nested(funcs, xin)
           /\ cout.compose.log = [j \in 1..Len(funcs) |->
                                     <<Len(funcs) + 1 - j, funcs[Len(funcs) + 1 - j]>>]
    /\ cout.pipe.done =>
           /\ cout.pipe.value = Chained(funcs, xin)
           /\ cout.pipe.log = [j \in 1..Len(funcs) |-> <<j, funcs[j]>>]
    /\ (funcs = <<>> /\ cout.compose.done /\ cout.pipe.done) =>
           (cout.compose.value = xin /\ cout.pipe.value = xin)

\* compose and pipe were both applied to two different functions whose
\* order of application matters.
C15_Witness ==
    /\ cout.compose.done /\ cout.pipe.done
    /\ Len(funcs) = 2 /\ funcs[1] # funcs[2]
    /\ Nested(funcs, xin) # Chained(funcs, xin)

(***************************************************************************)
(* curry.                                                                  *)
(***************************************************************************)
\* Everything the chain of invocations supplied, in the order supplied.
RECURSIVE SuppliedArgs(_)
SuppliedArgs(h) == IF h = <<>> THEN <<>> ELSE Head(h).args \o SuppliedArgs(Tail(h))
SuppliedKeys(h) == UNION {Keys(h[j].kw) : j \in 1..Len(h)}
OnlyPositional(h) == \A j \in 1..Len(h) : h[j].kw = {}
CurryCalled == clast.op = "call"

\* C16: for fn with k required parameters, a chain of positional
\* invocations that supplies exactly k arguments (in particular two non-empty
\* groups) returns what fn returns when called with those arguments in the
\* order they were supplied.
C16_CurryEqualsDirectCall ==
    (/\ CurryCalled
     /\ carity = NoArity
     /\ OnlyPositional(chist)
     /\ Len(SuppliedArgs(chist)) = Len(csig.required))
        => /\ cphase = "done"
           /\ clast.result = CallFn(csig, SuppliedArgs(chist), {})
           /\ clast.result # TypeError

\* add3 was curried and given its three arguments in two non-empty groups.
C16_Witness ==
    /\ csig.name = "add3" /\ carity = NoArity
    /\ Len(chist) = 2 /\ OnlyPositional(chist)
    /\ chist[1].args = <<1>> /\ chist[2].args = <<2, 3>>
    /\ cphase = "done"

\* C17: an invocation invokes fn exactly when the number of positional plus
\* keyword arguments accumulated reaches the arity, then once and with all
\* that was accumulated; below the arity it returns a closure and fn is not
\* invoked.
C17_InvokedAtArity ==
    CurryCalled =>
        LET count == Len(SuppliedArgs(chist)) + Cardinality(SuppliedKeys(chist)) IN
        /\ clast.invoked <=> count >= fn_arity(csig, carity)
        /\ clast.invoked =>
               /\ ccalls = 1
               /\ cargs = SuppliedArgs(chist)
               /\ Keys(ckw) = SuppliedKeys(chist)
               /\ clast.result = CallFn(csig, cargs, ckw)
        /\ ~clast.invoked => (clast.result = Closure /\ ccalls = 0 /\ cphase = "open")

\* fn was invoked by the third invocation of a chain that also passed a
\* keyword argument.
C17_Witness ==
    /\ CurryCalled /\ clast.invoked
    /\ Len(chist) = MaxChain
    /\ SuppliedKeys(chist) # {}
    /\ clast.result # TypeError

\* C18: each invocation extends the accumulated positional arguments at the
\* end and only adds keyword keys; a key passed again takes the later value.
C18_AccumulationMonotonic ==
    [][/\ cargs' = cargs \o clast'.more_args
       /\ Keys(ckw') = Keys(ckw) \cup Keys(clast'.more_kw)
       /\ \A key \in Keys(ckw') :
              Lookup(ckw', key) = IF key \in Keys(clast'.more_kw)
                                  THEN Lookup(clast'.more_kw, key)
                                  ELSE Lookup(ckw, key)]_curryVars

\* A closure holding arguments and b=7 was invoked with more arguments and
\* b=9.
C18_Witness ==
    /\ Len(chist) >= 2
    /\ chist[1].args # <<>> /\ chist[2].args # <<>>
    /\ <<"b", 7>> \in chist[1].kw /\ <<"b", 9>> \in chist[2].kw
    /\ <<"b", 9>> \in ckw

(***************************************************************************)
(* partial and map_reduce.                                                 *)
(***************************************************************************)
\* C19: partial(fn, *fixed, **fixedKw)(*more, **moreKw) calls fn once, with
\* the fixed positional arguments followed by more, and with the keyword
\* arguments of both, the caller's value winning where a key is in both.
C19_PartialPassesFixedThenMore ==
    ptlast.op = "call" =>
        /\ ptlast.calls = 1
        /\ ptlast.passed_args = ptlast.args \o ptlast.more_args
        /\ Keys(ptlast.passed_kw) = Keys(ptlast.kw) \cup Keys(ptlast.more_kw)
        /\ \A key \in Keys(ptlast.passed_kw) :
               Lookup(ptlast.passed_kw, key) =
                   IF key \in Keys(ptlast.more_kw)
                   THEN Lookup(ptlast.more_kw, key) ELSE Lookup(ptlast.kw, key)

\* Fixed and later positional arguments differ, and b is fixed to 7 and
\* passed as 9.
C19_Witness ==
    /\ ptlast.op = "call"
    /\ ptlast.args = <<1, 2>> /\ ptlast.more_args = <<3>>
    /\ <<"b", 7>> \in ptlast.kw /\ <<"b", 9>> \in ptlast.more_kw

RECURSIVE FoldLeft(_, _, _)
FoldLeft(r, acc, sq) ==
    IF sq = <<>> THEN acc ELSE FoldLeft(r, Reduce(r, acc, Head(sq)), Tail(sq))
MappedValues == [j \in 1..Len(mrlast.coll) |-> ApplyFn(mrlast.mapper, mrlast.coll[j])]
ReduceEvents == SubSeq(mrlast.events, Len(mrlast.coll) + 1, Len(mrlast.events))

\* C20: map_reduce applies mapper to every element in order before any
\* reducer call, then folds the mapped values from the left: from initial
\* over all of them when initial is given, else from the first mapped value
\* over the rest; on an empty sequence it returns initial without calling
\* reducer.
C20_MapThenFoldLeft ==
    mrlast.op = "call" =>
        LET n == Len(mrlast.coll)
            mv == MappedValues
            seeded == mrlast.initial # PNone
            folded == IF seeded THEN mv ELSE Tail(mv)
        IN  /\ Len(mrlast.events) >= n
            /\ \A j \in 1..n : mrlast.events[j] = <<"map", mrlast.coll[j], 0>>
            /\ \A j \in 1..Len(ReduceEvents) : ReduceEvents[j][1] = "reduce"
            /\ IF n = 0
               THEN mrlast.value = mrlast.initial /\ ReduceEvents = <<>>
               ELSE /\ Len(ReduceEvents) = Len(folded)
                    /\ \A j \in 1..Len(folded) : ReduceEvents[j][3] = folded[j]
                    /\ mrlast.value =
                           PInt(FoldLeft(mrlast.reducer,
                                         IF seeded THEN Payload(mrlast.initial) ELSE mv[1],
                                         folded))

\* A fold by subtraction seeded with initial 0 over three different mapped
\* values.
C20_Witness ==
    /\ mrlast.op = "call"
    /\ mrlast.reducer = "sub" /\ mrlast.initial = PInt(0)
    /\ mrlast.coll = <<1, 2, 3>>
    /\ Len(ReduceEvents) = 3

(***************************************************************************)
(* memoize with max_size, used sequentially with clear_cache.              *)
(***************************************************************************)
Bounded == max_size # NoMaxSize

\* C26: with max_size = N, after every completed operation (a call that
\* returned or raised, or clear_cache) the cache holds at most N entries and
\* every cached key is in the recency list.
C26_CacheWithinBound ==
    Bounded =>
        /\ Cardinality(DOMAIN cache) <= max_size
        /\ \A key \in DOMAIN cache : InSeq(order, key)

\* A call made after clear_cache raised while evicting, and the cache is
\* full.
C26_Witness ==
    /\ Bounded /\ max_size >= 2
    /\ last.op = "call" /\ last.outcome = "KeyError"
    /\ Cardinality(DOMAIN cache) = max_size

\* C27: with max_size set, a call whose f and key function return normally
\* returns f's value (the wrapper raises no error of its own), and the key a
\* miss inserted is cached right after that call when max_size >= 1.
C27_NoErrorOfItsOwn ==
    (Bounded /\ last.op = "call" /\ last.outcome \notin {"FnError", "KeyFuncError"}) =>
        /\ last.outcome = "return"
        /\ last.value = F(last.arg)
        /\ (last.invoked /\ max_size >= 1) =>
               MakeKey(key_func, ArgLists[last.arg]) \in DOMAIN cache


(***************************************************************************)
(* trampoline                                                              *)
(***************************************************************************)
RECURSIVE direct(_, _)
\* The equivalent direct recursion: factorial with an accumulator.
direct(n, acc) == IF n <= 1 THEN acc ELSE direct(n - 1, n * acc)

ChainValue ==
    IF tbase = "acc" THEN <<"value", direct(tn, 1), 0>> ELSE <<"type", 0, 0>>

\* The activations of one evaluation that a trampoline needs whatever n is:
\* the trampoline and the thunk it is bouncing.
ConstantDepth == 2

\* C21: a trampolined call over a finite chain of thunks ends by returning
\* the first non-thunk of the chain (a type counts as a value), which is the
\* value of the direct recursion; it never ends otherwise.
C21_ReturnsChainValue ==
    tresult # Unset => tresult = ChainValue

\* C22: the number of simultaneously active trampoline and thunk
\* activations stays within a constant that does not depend on n, in the
\* decorated form too.
C22_ConstantStack ==
    Len(stack) <= ConstantDepth


(***************************************************************************)
(* higher_order                                                            *)
(***************************************************************************)
\* C23: w.compose(*fs) runs w first and then the fs right-to-left, w.pipe(*fs)
\* runs w first and then the fs left-to-right; the wrapper carries the
\* marker, so is_higher_order reports true, and calling it returns what the
\* wrapped callable returns.
C23_EnhancedWrapper ==
    /\ hout.compose.done =>
           /\ hout.compose.log = <<wrapper>> \o reversed(FnObjs(funcs))
           /\ hout.compose.value = Nested(funcs, ApplyFn(hfn, xin))
    /\ hout.pipe.done =>
           /\ hout.pipe.log = <<wrapper>> \o FnObjs(funcs)
           /\ hout.pipe.value = Chained(funcs, ApplyFn(hfn, xin))
    /\ hout.marked # "unasked" => hout.marked = "yes"
    /\ hout.call.done => hout.call.value = ApplyFn(hfn, xin)

C23_Witness ==
    /\ hout.compose.done /\ hout.pipe.done /\ hout.call.done /\ hout.marked = "yes"
    /\ Len(funcs) = MaxFuncs
    /\ hout.compose.value # hout.pipe.value
    /\ hout.compose.value # Nested(funcs, xin)


(***************************************************************************)
(* The runs of the verifying wrappers                                      *)
(***************************************************************************)
Position(steps, name) ==
    IF \E j \in 1..Len(steps) : steps[j] = name
    THEN CHOOSE j \in 1..Len(steps) : steps[j] = name
    ELSE 0

\* One finished run followed Capture -> Invoke -> Verify -> Return-or-Fail.
OrderlyRun(r) ==
    /\ r.invoked = 1
    /\ Position(r.steps, "capture") = 1
    /\ Position(r.steps, "invoke") = 2
    /\ Position(r.steps, "verify") \in {0, 3}
    /\ r.outcome = "return" => (Position(r.steps, "verify") = 3 /\ ~r.mismatch)
    /\ r.outcome = "violation" => (Position(r.steps, "verify") = 3 /\ r.mismatch)

\* Two runs with the same argument and the same behaviour of the callable
\* end the same way.
SameInputSameOutcome ==
    \A i, j \in 1..Len(rhist) :
        (rhist[i].arg = rhist[j].arg /\ rhist[i].plan = rhist[j].plan) =>
            rhist[i].outcome = rhist[j].outcome

\* C24: every call of an immutable or pure wrapper is a run of its own:
\* snapshots first, then exactly one invocation of the callable, the
\* verification only after it, the result returned only when no mismatch
\* was found, and an outcome that depends on nothing but the call's input.
C24_IndependentRuns ==
    /\ \A i \in 1..Len(rhist) : OrderlyRun(rhist[i])
    /\ SameInputSameOutcome
    /\ rinvoked <= 1


\* The structural comparison of the argument in slot s with its snapshot
\* completed and reported a difference: the callable changed an object that
\* was copied and that compares by its state.
StructuralDifference(s) ==
    /\ s \in ilast.changed
    /\ ~DeepcopyReturnsSame(ilast.before[s])
    /\ Compare(ilast.before[s], Mutate(ilast.before[s]), FALSE) = "ne"

\* C25: the text of the two values is compared only when the structural
\* comparison raises; when the structural comparison completes and reports
\* a difference the call ends in a ValueError, whatever the texts are.
C25_StructuralDifferenceRaises ==
    (ilast.op = "call" /\ ~freeze_input /\ ilast.outcome # "TypeError"
        /\ \E s \in Slots : StructuralDifference(s)) =>
        ilast.outcome = "violation"


(***************************************************************************)
(* The closures of curry                                                   *)
(***************************************************************************)
SameInvocation(a, b) ==
    /\ a.op = "call" /\ b.op = "call"
    /\ a.closure = b.closure
    /\ a.more_args = b.more_args
    /\ a.more_kw = b.more_kw

\* C28: invoking a closure of a curried callable never changes what it, or
\* any other closure, has accumulated; two invocations of the same closure
\* with the same further arguments give the same result.
C28_ClosuresReusable ==
    /\ closures = kborn
    /\ SameInvocation(klast, kprev) =>
           /\ klast.invoked = kprev.invoked
           /\ klast.result = kprev.result
           /\ klast.cell = kprev.cell

C28_Witness ==
    /\ SameInvocation(klast, kprev)
    /\ klast.closure > 1
    /\ klast.more_args # <<>>
    /\ klast.invoked
    /\ klast.result[1] # "error"
    /\ closures[klast.closure].args # <<>>
    /\ Len(closures) = MaxClosures

====
